---- MODULE Spec2Model ----
(***************************************************************************)
(* A model of midi-app-controller: the schema validators of Controller and *)
(* Binds, the binding resolver BoundController, and the connected session  *)
(* of ConnectedController (connection, initialisation, inbound dispatch).  *)
(*                                                                         *)
(* Python values are encoded as follows.  An Optional[T] is a set with at  *)
(* most one element ({} is None).  A dict is a function whose DOMAIN is    *)
(* the set of its keys.  A list is a sequence.  The result of a call that  *)
(* may raise is a record whose field ok tells whether it returned.         *)
(***************************************************************************)
EXTENDS Integers, Sequences, FiniteSets, TLC

VARIABLES
    actions,            \* the action catalog handed to BoundController.create
    controller,         \* result of Controller(**data)
    binds,              \* result of Binds(**data)
    bound,              \* result of BoundController.create
    query,              \* the last query made on the BoundController
    pc,                 \* position of ConnectedController.create / the session
    midi_in,            \* the port midi_in has open ({} when none)
    midi_out,           \* the port midi_out has open ({} when none)
    callback,           \* whether midi_in has a receive callback registered
    button_engagement,  \* ConnectedController.button_engagement
    knob_engagement,    \* ConnectedController.knob_engagement
    sent,               \* the messages passed to midi_out.send_message
    invoked,            \* the actions invoked by the receive path, in order
    handled,            \* the number of inbound messages handed to midi_callback
    last,               \* the last inbound message and what handling it did
    knob_last,          \* per knob id, the value of its most recent inbound message
    printed,            \* the errors create caught and printed
    raised,             \* what the last call of create / midi_callback raised
    deleted,            \* whether delete() was called on midi_in and midi_out
    flash,              \* the flash_knob / flash_button call in progress
    outbound,           \* the number of outbound operations called
    fd_values,          \* the list handed to find_duplicate
    fd_call             \* the call of find_duplicate and what it returned

vars == <<actions, controller, binds, bound, query, pc, midi_in, midi_out,
          callback, button_engagement, knob_engagement, sent, invoked,
          handled, last, knob_last, printed, raised, deleted,
          flash, outbound, fd_values, fd_call>>

\* The argument and the result of a call of find_duplicate.
dupVars == <<fd_values, fd_call>>

resolveVars == <<actions, controller, binds, bound, query, dupVars>>
sessionVars == <<pc, midi_in, midi_out, callback, button_engagement,
                 knob_engagement, sent, invoked, handled, last, knob_last,
                 printed, raised, deleted, flash, outbound>>

\* The state of the adapter objects beyond their open ports.
opVars == <<deleted>>

\* The state of the thread that calls the outbound operations.
outVars == <<flash, outbound>>

----------------------------------------------------------------------------
(* Bounds of the model.                                                    *)

\* The largest number of outbound operations called in a session.
MaxOutbound == 1

\* The largest length of a list handed to find_duplicate on its own.
MaxLen == 4

\* The largest number of binds (button binds plus knob binds) of a Binds input.
MaxBinds == 2

\* The largest number of inbound messages of one session.
MaxMessages == 2

\* The largest number of input ports, and of output ports, the adapter lists.
MaxPorts == 2

----------------------------------------------------------------------------
(* Python helpers.                                                         *)

None == {}
Some(x) == {x}

\* d[k] = v on a dict.
DictSet(d, k, v) == [x \in (DOMAIN d) \cup {k} |-> IF x = k THEN v ELSE d[x]]

\* d.get(k) on a dict.
DictGet(d, k) == IF k \in DOMAIN d THEN Some(d[k]) ELSE None

EmptyDict == [x \in {} |-> 0]

\* [f(e) for e in list]
Range(s) == {s[i] : i \in DOMAIN s}

\* The indexes of a list whose element occurs at a smaller index as well.
Repeats(s) == {j \in DOMAIN s : \E i \in 1..(j - 1) : s[i] = s[j]}

\* The smallest of a non-empty set of indexes.
Least(S) == CHOOSE j \in S : \A k \in S : j <= k

\* The sequences over S of length at most n.
SeqsUpTo(S, n) == UNION {[1..k -> S] : k \in 0..n}

----------------------------------------------------------------------------
(* models/utils.py                                                         *)

RECURSIVE find_duplicate_from(_, _, _)
find_duplicate_from(values, i, seen) ==
    IF i > Len(values) THEN None
    ELSE IF values[i] \in seen THEN Some(values[i])
    ELSE find_duplicate_from(values, i + 1, seen \cup {values[i]})

\* find_duplicate with a fault: it returns the first element that occurs
\* again later, not the first element met a second time.
find_duplicate_earliest(values) ==
    LET S == {i \in DOMAIN values :
                 \E j \in DOMAIN values : j > i /\ values[j] = values[i]}
    IN  IF S = {} THEN None
        ELSE Some(values[CHOOSE i \in S : \A k \in S : i <= k])

\* find_duplicate with a fault: the scan never reports a duplicate.
find_duplicate_never(values) == None

find_duplicate(values) == find_duplicate_from(values, 1, {})

----------------------------------------------------------------------------
(* models/controller.py                                                    *)

\* Field(ge=0, le=127)
InRange(v) == 0 <= v /\ v <= 127

\* ControllerElement(**e): id in [0, 127] and a non-empty name.
ControllerElementValid(e) == InRange(e.id) /\ e.name # ""

ElementIds(list) == [i \in DOMAIN list |-> list[i].id]
ElementNames(list) == [i \in DOMAIN list |-> list[i].name]

\* The validator of the fields "buttons" and "knobs".
check_duplicate_names(v) ==
    LET duplicate == find_duplicate(ElementNames(v))
    IN  IF duplicate # None
        THEN <<[kind |-> "ValueError", msg |-> "name was used for multiple elements"]>>
        ELSE <<>>

\* A field List[ControllerElement]: every element is validated, then the
\* field's validator runs.  The field is kept only when nothing failed.
ElementListErrors(v) ==
    IF \E i \in DOMAIN v : ~ControllerElementValid(v[i])
    THEN <<[kind |-> "ValueError", msg |-> "invalid controller element"]>>
    ELSE check_duplicate_names(v)

\* The values dict the root validators receive: the fields that passed
\* their own validation (values.get(f) is None for the others).
ControllerValues(data) ==
    [name             |-> IF data.name # "" THEN Some(data.name) ELSE None,
     button_value_off |-> IF InRange(data.button_value_off)
                          THEN Some(data.button_value_off) ELSE None,
     button_value_on  |-> IF InRange(data.button_value_on)
                          THEN Some(data.button_value_on) ELSE None,
     knob_value_min   |-> IF InRange(data.knob_value_min)
                          THEN Some(data.knob_value_min) ELSE None,
     knob_value_max   |-> IF InRange(data.knob_value_max)
                          THEN Some(data.knob_value_max) ELSE None,
     buttons          |-> IF ElementListErrors(data.buttons) = <<>>
                          THEN Some(data.buttons) ELSE None,
     knobs            |-> IF ElementListErrors(data.knobs) = <<>>
                          THEN Some(data.knobs) ELSE None]

ControllerFieldErrors(data) ==
    LET v == ControllerValues(data)
        miss(f) == IF f = None
                   THEN <<[kind |-> "ValueError", msg |-> "invalid field"]>>
                   ELSE <<>>
    IN  miss(v.name) \o miss(v.button_value_off) \o miss(v.button_value_on)
        \o miss(v.knob_value_min) \o miss(v.knob_value_max)
        \o ElementListErrors(data.buttons) \o ElementListErrors(data.knobs)

\* Controller.check_duplicate_ids: iterating a missing list is a TypeError.
Controller_check_duplicate_ids(values) ==
    IF values.buttons = None \/ values.knobs = None
    THEN <<[kind |-> "TypeError", msg |-> "NoneType is not iterable"]>>
    ELSE LET button_ids == ElementIds(CHOOSE l \in values.buttons : TRUE)
             knob_ids == ElementIds(CHOOSE l \in values.knobs : TRUE)
         IN  IF find_duplicate(button_ids) # None
             THEN <<[kind |-> "ValueError", msg |-> "id was used for multiple buttons"]>>
             ELSE IF find_duplicate(knob_ids) # None
             THEN <<[kind |-> "ValueError", msg |-> "id was used for multiple knobs"]>>
             ELSE <<>>

\* Controller.check_button_values (None == None when both fields are missing).
check_button_values(values) ==
    IF values.button_value_off = values.button_value_on
    THEN <<[kind |-> "ValueError", msg |-> "button_value_off and button_value_on are equal"]>>
    ELSE <<>>

\* check_knob_values with a fault: > in the place of >=.
check_knob_values_not_greater(values) ==
    IF values.knob_value_min = None \/ values.knob_value_max = None
    THEN <<[kind |-> "TypeError", msg |-> ">= not supported for NoneType"]>>
    ELSE LET lo == CHOOSE x \in values.knob_value_min : TRUE
             hi == CHOOSE x \in values.knob_value_max : TRUE
         IN  IF lo > hi
             THEN <<[kind |-> "ValueError", msg |-> "knob_value_min must be smaller than knob_value_max"]>>
             ELSE <<>>

\* Controller.check_knob_values: comparing with a missing field is a TypeError.
check_knob_values(values) ==
    IF values.knob_value_min = None \/ values.knob_value_max = None
    THEN <<[kind |-> "TypeError", msg |-> ">= not supported for NoneType"]>>
    ELSE LET lo == CHOOSE x \in values.knob_value_min : TRUE
             hi == CHOOSE x \in values.knob_value_max : TRUE
         IN  IF lo >= hi
             THEN <<[kind |-> "ValueError", msg |-> "knob_value_min must be smaller than knob_value_max"]>>
             ELSE <<>>

\* Controller(**data): the field validation, then every root validator;
\* the model is built only when no validator raised.
ControllerNew(data) ==
    LET values == ControllerValues(data)
        errors == ControllerFieldErrors(data)
                  \o Controller_check_duplicate_ids(values)
                  \o check_button_values(values)
                  \o check_knob_values(values)
    IN  IF errors = <<>>
        THEN [state |-> "ok", data |-> data, errors |-> <<>>]
        ELSE [state |-> "error", data |-> data, errors |-> errors]

----------------------------------------------------------------------------
(* models/binds.py                                                         *)

ButtonBindValid(b) == InRange(b.button_id)
KnobBindValid(b) == InRange(b.knob_id)

BindsValues(data) ==
    [name         |-> IF data.name # "" THEN Some(data.name) ELSE None,
     app_name     |-> IF data.app_name # "" THEN Some(data.app_name) ELSE None,
     button_binds |-> IF \A i \in DOMAIN data.button_binds :
                             ButtonBindValid(data.button_binds[i])
                      THEN Some(data.button_binds) ELSE None,
     knob_binds   |-> IF \A i \in DOMAIN data.knob_binds :
                             KnobBindValid(data.knob_binds[i])
                      THEN Some(data.knob_binds) ELSE None]

BindsFieldErrors(data) ==
    LET v == BindsValues(data)
        miss(f) == IF f = None
                   THEN <<[kind |-> "ValueError", msg |-> "invalid field"]>>
                   ELSE <<>>
    IN  miss(v.name) \o miss(v.app_name) \o miss(v.button_binds) \o miss(v.knob_binds)

\* check_duplicate_ids with a fault: only the button ids are scanned.
Binds_check_duplicate_ids_buttons_only(values) ==
    IF values.button_binds = None \/ values.knob_binds = None
    THEN <<[kind |-> "TypeError", msg |-> "NoneType is not iterable"]>>
    ELSE LET bb == CHOOSE l \in values.button_binds : TRUE
             button_ids == [i \in DOMAIN bb |-> bb[i].button_id]
             duplicate == find_duplicate(button_ids)
         IN  IF duplicate # None
             THEN <<[kind |-> "ValueError", msg |-> "id was bound to multiple actions",
                     id |-> CHOOSE d \in duplicate : TRUE]>>
             ELSE <<>>

\* check_duplicate_ids with a fault: the scan runs over knob_ids + button_ids.
Binds_check_duplicate_ids_knobs_first(values) ==
    IF values.button_binds = None \/ values.knob_binds = None
    THEN <<[kind |-> "TypeError", msg |-> "NoneType is not iterable"]>>
    ELSE LET bb == CHOOSE l \in values.button_binds : TRUE
             kb == CHOOSE l \in values.knob_binds : TRUE
             button_ids == [i \in DOMAIN bb |-> bb[i].button_id]
             knob_ids == [i \in DOMAIN kb |-> kb[i].knob_id]
             duplicate == find_duplicate(knob_ids \o button_ids)
         IN  IF duplicate # None
             THEN <<[kind |-> "ValueError", msg |-> "id was bound to multiple actions",
                     id |-> CHOOSE d \in duplicate : TRUE]>>
             ELSE <<>>

\* Binds.check_duplicate_ids: one scan over button_ids + knob_ids.
Binds_check_duplicate_ids(values) ==
    IF values.button_binds = None \/ values.knob_binds = None
    THEN <<[kind |-> "TypeError", msg |-> "NoneType is not iterable"]>>
    ELSE LET bb == CHOOSE l \in values.button_binds : TRUE
             kb == CHOOSE l \in values.knob_binds : TRUE
             button_ids == [i \in DOMAIN bb |-> bb[i].button_id]
             knob_ids == [i \in DOMAIN kb |-> kb[i].knob_id]
             duplicate == find_duplicate(button_ids \o knob_ids)
         IN  IF duplicate # None
             THEN <<[kind |-> "ValueError", msg |-> "id was bound to multiple actions",
                     id |-> CHOOSE d \in duplicate : TRUE]>>
             ELSE <<>>

\* Binds(**data)
BindsNew(data) ==
    LET errors == BindsFieldErrors(data) \o Binds_check_duplicate_ids(BindsValues(data))
    IN  IF errors = <<>>
        THEN [state |-> "ok", data |-> data, errors |-> <<>>]
        ELSE [state |-> "error", data |-> data, errors |-> errors]

----------------------------------------------------------------------------
(* actions/bound_controller.py: the binding resolver.                      *)

\* The id -> Action index built from the catalog.
ActionIndex(catalog) ==
    [a \in {catalog[i].id : i \in DOMAIN catalog} |->
        catalog[CHOOSE i \in DOMAIN catalog : catalog[i].id = a]]

\* The optional action an optional action id resolves to.
ResolveOptional(index, opt_id) ==
    IF opt_id = None THEN None
    ELSE Some(index[CHOOSE a \in opt_id : TRUE])

RECURSIVE BoundButtons(_, _, _)
BoundButtons(button_binds, index, i) ==
    IF i = 0 THEN EmptyDict
    ELSE DictSet(BoundButtons(button_binds, index, i - 1),
                 button_binds[i].button_id,
                 [action_press |-> index[button_binds[i].action_id]])

RECURSIVE BoundKnobs(_, _, _)
BoundKnobs(knob_binds, index, i) ==
    IF i = 0 THEN EmptyDict
    ELSE DictSet(BoundKnobs(knob_binds, index, i - 1),
                 knob_binds[i].knob_id,
                 [action_increase |-> ResolveOptional(index, knob_binds[i].action_id_increase),
                  action_decrease |-> ResolveOptional(index, knob_binds[i].action_id_decrease)])

\* The action ids a Binds refers to.
ReferencedActionIds(b) ==
    {b.button_binds[i].action_id : i \in DOMAIN b.button_binds}
    \cup UNION {b.knob_binds[i].action_id_increase : i \in DOMAIN b.knob_binds}
    \cup UNION {b.knob_binds[i].action_id_decrease : i \in DOMAIN b.knob_binds}

\* create with a fault: the resolver does not compare the controller's name.
BoundControllerCreateAnyName(b, c, catalog) ==
    LET index == ActionIndex(catalog)
    IN  IF \/ \E i \in DOMAIN b.button_binds :
                 b.button_binds[i].button_id \notin Range(ElementIds(c.buttons))
           \/ \E i \in DOMAIN b.knob_binds :
                 b.knob_binds[i].knob_id \notin Range(ElementIds(c.knobs))
           \/ ~(ReferencedActionIds(b) \subseteq DOMAIN index)
        THEN [state |-> "error", kind |-> "ValueError"]
        ELSE [state |-> "ok",
              knob_value_min |-> c.knob_value_min,
              knob_value_max |-> c.knob_value_max,
              button_value_off |-> c.button_value_off,
              button_value_on |-> c.button_value_on,
              buttons |-> BoundButtons(b.button_binds, index, Len(b.button_binds)),
              knobs |-> BoundKnobs(b.knob_binds, index, Len(b.knob_binds))]

\* BoundController.create(binds, controller, actions)
BoundControllerCreate(b, c, catalog) ==
    LET index == ActionIndex(catalog)
    IN  IF \/ b.controller_name # c.name
           \/ \E i \in DOMAIN b.button_binds :
                 b.button_binds[i].button_id \notin Range(ElementIds(c.buttons))
           \/ \E i \in DOMAIN b.knob_binds :
                 b.knob_binds[i].knob_id \notin Range(ElementIds(c.knobs))
           \/ ~(ReferencedActionIds(b) \subseteq DOMAIN index)
        THEN [state |-> "error", kind |-> "ValueError"]
        ELSE [state |-> "ok",
              knob_value_min |-> c.knob_value_min,
              knob_value_max |-> c.knob_value_max,
              button_value_off |-> c.button_value_off,
              button_value_on |-> c.button_value_on,
              buttons |-> BoundButtons(b.button_binds, index, Len(b.button_binds)),
              knobs |-> BoundKnobs(b.knob_binds, index, Len(b.knob_binds))]

\* BoundController.get_button_press_action(button_id)
get_button_press_action(bc, button_id) ==
    IF button_id \in DOMAIN bc.buttons
    THEN Some(bc.buttons[button_id].action_press)
    ELSE None

\* BoundController.get_knob_increase_action(knob_id)
get_knob_increase_action(bc, knob_id) ==
    IF knob_id \in DOMAIN bc.knobs THEN bc.knobs[knob_id].action_increase ELSE None

\* BoundController.get_knob_decrease_action(knob_id)
get_knob_decrease_action(bc, knob_id) ==
    IF knob_id \in DOMAIN bc.knobs THEN bc.knobs[knob_id].action_decrease ELSE None

----------------------------------------------------------------------------
(* The inputs the resolution is checked on.                                *)

Element(i, n) == [id |-> i, name |-> n]
Action(i, t) == [id |-> i, title |-> t]

\* The catalog of the resolver's tests, and the same with one action removed.
AllActions == <<Action("Action1", "sdfgsdfg"), Action("incr", "dfgssdfg"),
                Action("decr", "sdfdfg"), Action("other", "aaaasfd")>>

Pop(list, k) == [i \in 1..(Len(list) - 1) |-> IF i < k THEN list[i] ELSE list[i + 1]]

Catalogs == {AllActions} \cup {Pop(AllActions, k) : k \in DOMAIN AllActions}

ButtonLists ==
    { <<>>,
      <<Element(0, "Button1"), Element(1, "Button2")>>,
      <<Element(1, "Button2")>>,
      <<Element(1, "Button1"), Element(1, "Button2")>>,
      <<Element(0, "Button1"), Element(1, "Button1")>> }

KnobLists ==
    { <<>>,
      <<Element(2, "Knob1"), Element(3, "Knob2")>>,
      <<Element(1, "Knob1"), Element(2, "Knob2")>>,
      <<Element(2, "Knob1"), Element(2, "Knob2")>>,
      <<Element(2, "Knob1"), Element(3, "Knob1")>>,
      <<Element(1, "Button2")>> }

\* <<button_value_off, button_value_on, knob_value_min, knob_value_max>>
ValueTuples ==
    { <<11, 100, 33, 55>>, <<0, 127, 0, 127>>, <<5, 5, 0, 127>>,
      <<0, 127, 55, 33>>, <<0, 128, 7, 7>>, <<0, 127, 7, 7>> }

ControllerNames == {"TestController", "asdfjkasdfjk"}

ControllerInputs ==
    { [name |-> n, button_value_off |-> v[1], button_value_on |-> v[2],
       knob_value_min |-> v[3], knob_value_max |-> v[4], buttons |-> b, knobs |-> k] :
        n \in ControllerNames, v \in ValueTuples, b \in ButtonLists, k \in KnobLists }

ButtonBindPool ==
    { [button_id |-> 1, action_id |-> "Action1"],
      [button_id |-> 1, action_id |-> "other"],
      [button_id |-> 0, action_id |-> "other"],
      [button_id |-> 2, action_id |-> "Action1"] }

KnobBindPool ==
    { [knob_id |-> 2, action_id_increase |-> Some("incr"), action_id_decrease |-> Some("decr")],
      [knob_id |-> 2, action_id_increase |-> None, action_id_decrease |-> Some("decr")],
      [knob_id |-> 1, action_id_increase |-> Some("incr"), action_id_decrease |-> None],
      [knob_id |-> 3, action_id_increase |-> None, action_id_decrease |-> None] }

BindsInputs ==
    { [name |-> "TestBinds", description |-> Some("Test description"),
       app_name |-> "TestApp", controller_name |-> "TestController",
       button_binds |-> bb, knob_binds |-> kb] :
        bb \in SeqsUpTo(ButtonBindPool, MaxBinds),
        kb \in SeqsUpTo(KnobBindPool, MaxBinds) }

\* The ids of a Binds input in the order check_duplicate_ids scans them.
BindIdsOf(b) ==
    [i \in DOMAIN b.button_binds |-> b.button_binds[i].button_id]
    \o [i \in DOMAIN b.knob_binds |-> b.knob_binds[i].knob_id]

\* The Binds inputs of two button binds and two knob binds in which two
\* different ids occur twice, such as buttons 1, 2 with knobs 2, 1.
TwoDuplicateBindsInputs ==
    { b \in BindsInputs :
        /\ Len(b.button_binds) = 2
        /\ Len(b.knob_binds) = 2
        /\ \E i, j \in Repeats(BindIdsOf(b)) : BindIdsOf(b)[i] # BindIdsOf(b)[j] }

\* The Binds inputs loaded: those of at most MaxBinds binds in all, and
\* those with two different duplicated ids.
BoundedBindsInputs ==
    { b \in BindsInputs : Len(b.button_binds) + Len(b.knob_binds) <= MaxBinds }
    \cup TwoDuplicateBindsInputs

\* The ids the queries are made with: bound and unbound elements, ids of no
\* element, and an id outside [0, 127].
QueryIds == {0, 1, 2, 3, 10, 1000}

QueryKinds == {"button_press", "knob_increase", "knob_decrease"}

----------------------------------------------------------------------------
(* The resolution: loading a controller and a bind set, resolving them     *)
(* against a catalog, querying the result.                                 *)

NotLoaded == [state |-> "none"]

\* No call of find_duplicate on its own is under way.
InitDup ==
    /\ fd_values = <<>>
    /\ fd_call = NotLoaded

InitSession ==
    /\ pc = "idle"
    /\ midi_in = None
    /\ midi_out = None
    /\ callback = FALSE
    /\ button_engagement = EmptyDict
    /\ knob_engagement = EmptyDict
    /\ sent = <<>>
    /\ invoked = <<>>
    /\ handled = 0
    /\ last = NotLoaded
    /\ knob_last = EmptyDict
    /\ printed = <<>>
    /\ raised = None
    /\ deleted = FALSE
    /\ flash = NotLoaded
    /\ outbound = 0

InitResolve ==
    /\ actions \in Catalogs
    /\ controller = NotLoaded
    /\ binds = NotLoaded
    /\ bound = NotLoaded
    /\ query = NotLoaded
    /\ InitDup
    /\ InitSession

LoadController ==
    /\ controller.state = "none"
    /\ \E data \in ControllerInputs : controller' = ControllerNew(data)
    /\ UNCHANGED <<actions, binds, bound, query, sessionVars, dupVars>>

LoadBinds ==
    /\ binds.state = "none"
    /\ \E data \in BoundedBindsInputs : binds' = BindsNew(data)
    /\ UNCHANGED <<actions, controller, bound, query, sessionVars, dupVars>>

Resolve ==
    /\ controller.state = "ok"
    /\ binds.state = "ok"
    /\ bound.state = "none"
    /\ bound' = BoundControllerCreate(binds.data, controller.data, actions)
    /\ UNCHANGED <<actions, controller, binds, query, sessionVars, dupVars>>

QueryResult(bc, kind, id) ==
    CASE kind = "button_press"  -> get_button_press_action(bc, id)
      [] kind = "knob_increase" -> get_knob_increase_action(bc, id)
      [] kind = "knob_decrease" -> get_knob_decrease_action(bc, id)

Query ==
    /\ bound.state = "ok"
    /\ \E kind \in QueryKinds, id \in QueryIds :
          query' = [state |-> "ok", kind |-> kind, id |-> id,
                    result |-> QueryResult(bound, kind, id)]
    /\ UNCHANGED <<actions, controller, binds, bound, sessionVars, dupVars>>

NextResolve == LoadController \/ LoadBinds \/ Resolve \/ Query

SpecResolve == InitResolve /\ [][NextResolve]_vars

----------------------------------------------------------------------------
(* find_duplicate on its own: a call on a list of hashable values.         *)

\* The elements of the lists.
DupValues == {1, 2, 3}

InitFindDuplicate ==
    /\ fd_values \in SeqsUpTo(DupValues, MaxLen)
    /\ fd_call = NotLoaded
    /\ actions = AllActions
    /\ controller = NotLoaded
    /\ binds = NotLoaded
    /\ bound = NotLoaded
    /\ query = NotLoaded
    /\ InitSession

\* find_duplicate(values): the function reads values and builds
\* a set of its own; argument is the list as it was at the call.
FindDuplicate ==
    /\ fd_call.state = "none"
    /\ fd_call' = [state |-> "ok", argument |-> fd_values,
                   result |-> find_duplicate(fd_values)]
    /\ fd_values' = fd_values
    /\ UNCHANGED <<actions, controller, binds, bound, query, sessionVars>>

NextFindDuplicate == FindDuplicate

SpecFindDuplicate == InitFindDuplicate /\ [][NextFindDuplicate]_vars

----------------------------------------------------------------------------
(* Claims about the resolution (checked under SpecResolve).                *)

BindButtonIds == {binds.data.button_binds[i].button_id : i \in DOMAIN binds.data.button_binds}
BindKnobIds == {binds.data.knob_binds[i].knob_id : i \in DOMAIN binds.data.knob_binds}
ControllerButtonIds == {controller.data.buttons[i].id : i \in DOMAIN controller.data.buttons}
ControllerKnobIds == {controller.data.knobs[i].id : i \in DOMAIN controller.data.knobs}
CatalogIds == {actions[i].id : i \in DOMAIN actions}

Resolved == controller.state = "ok" /\ binds.state = "ok" /\ bound.state # "none"

NameMismatch == binds.data.controller_name # controller.data.name
UnknownButton == \E id \in BindButtonIds : id \notin ControllerButtonIds
UnknownKnob == \E id \in BindKnobIds : id \notin ControllerKnobIds
UnknownAction ==
    \/ \E i \in DOMAIN binds.data.button_binds :
          binds.data.button_binds[i].action_id \notin CatalogIds
    \/ \E i \in DOMAIN binds.data.knob_binds :
          \/ \E a \in binds.data.knob_binds[i].action_id_increase : a \notin CatalogIds
          \/ \E a \in binds.data.knob_binds[i].action_id_decrease : a \notin CatalogIds

\* r is exactly one action, and its id is a.
IsActionWithId(r, a) == Cardinality(r) = 1 /\ \A x \in r : x.id = a

\* r is the action an optional action id names (none for none).
IsOptionalActionWithId(r, opt) ==
    IF opt = None THEN r = None ELSE \A a \in opt : IsActionWithId(r, a)

\* C1: when the bind set names the controller, binds only ids the controller
\* has and refers only to actions of the catalog, create succeeds, the keys
\* of buttons / knobs are exactly the bound button / knob ids, and each query
\* returns the action whose id the corresponding bind names.
C1_ResolutionTotal ==
    (Resolved /\ ~NameMismatch /\ ~UnknownButton /\ ~UnknownKnob /\ ~UnknownAction)
    => /\ bound.state = "ok"
       /\ DOMAIN bound.buttons = BindButtonIds
       /\ DOMAIN bound.knobs = BindKnobIds
       /\ \A i \in DOMAIN binds.data.button_binds :
             LET bind == binds.data.button_binds[i]
             IN  IsActionWithId(get_button_press_action(bound, bind.button_id),
                                bind.action_id)
       /\ \A i \in DOMAIN binds.data.knob_binds :
             LET bind == binds.data.knob_binds[i]
             IN  /\ IsOptionalActionWithId(get_knob_increase_action(bound, bind.knob_id),
                                           bind.action_id_increase)
                 /\ IsOptionalActionWithId(get_knob_decrease_action(bound, bind.knob_id),
                                           bind.action_id_decrease)

\* A resolution that succeeded with a bound button, a bound knob and an
\* element of the controller that has no bind.
C1_Witness ==
    /\ Resolved /\ bound.state = "ok"
    /\ BindButtonIds # {} /\ BindKnobIds # {}
    /\ ControllerButtonIds \ BindButtonIds # {}
    /\ \E i \in DOMAIN binds.data.knob_binds :
          binds.data.knob_binds[i].action_id_increase # None

\* C2: create fails, and yields no BoundController, whenever the names
\* differ, a bound button or knob id is not an element of the controller, or
\* a referenced action id is not in the catalog.
C2_ResolutionFails ==
    (Resolved /\ (NameMismatch \/ UnknownButton \/ UnknownKnob \/ UnknownAction))
    => bound.state = "error"

\* A resolution that failed on the controller's name alone.
C2_Witness ==
    /\ Resolved /\ bound.state = "error"
    /\ NameMismatch /\ ~UnknownButton /\ ~UnknownKnob /\ ~UnknownAction
    /\ BindButtonIds # {} /\ BindKnobIds # {}

\* The answer a query must give: none for an id that has no bind of the
\* queried kind, and none for an id bound as the other kind of element.
QueryIsNoneWhenUnbound ==
    query.state = "ok" =>
       /\ (query.kind = "button_press" /\ query.id \notin BindButtonIds)
             => query.result = None
       /\ (query.kind = "button_press" /\ query.id \in BindKnobIds)
             => query.result = None
       /\ (query.kind \in {"knob_increase", "knob_decrease"} /\ query.id \notin BindKnobIds)
             => query.result = None
       /\ (query.kind \in {"knob_increase", "knob_decrease"} /\ query.id \in BindButtonIds)
             => query.result = None

\* C3: the three queries are total: for an id bound as the other kind of
\* element, an id of an unbound element, an id of no element and an id
\* outside [0, 127] they return none, and a query leaves the BoundController
\* as it was.
C3_QueriesTotal ==
    [][(query' # query) => (bound' = bound /\ QueryIsNoneWhenUnbound')]_vars

\* A button query with the id of a bound knob, answered none.
C3_Witness ==
    /\ query.state = "ok" /\ query.kind = "button_press"
    /\ query.id \in BindKnobIds /\ query.id \in ControllerButtonIds
    /\ query.result = None

----------------------------------------------------------------------------
(* controller/controller_constants.py: the protocol's command bytes.       *)

BUTTON_ENGAGED_COMMAND == 144
BUTTON_DISENGAGED_COMMAND == 128
KNOB_VALUE_CHANGE_COMMAND == 176
BUTTON_VALUE_CHANGE_ON_COMMAND == 144
BUTTON_VALUE_CHANGE_OFF_COMMAND == 128

----------------------------------------------------------------------------
(* controller/connected_controller.py: ConnectedController.create.         *)

\* The port names the adapter may list, and port.split(":")[0] of each.
Ports == {"TestController:0", "TestController:1", "Other:0"}

PortName(port) ==
    CASE port = "TestController:0" -> "TestController"
      [] port = "TestController:1" -> "TestController"
      [] port = "Other:0"          -> "Other"

PortLists == SeqsUpTo(Ports, MaxPorts)

\* [port for port in available_ports_in if port in available_ports_out]
AvailablePorts(ports_in, ports_out) ==
    LET InOut(port) == port \in Range(ports_out)
    IN  SelectSeq(ports_in, InOut)

\* The loop over enumerate(available_ports): the last port whose name is the
\* controller's; port_index counts from 0, and -1 with controller_port ""
\* stands for no match.
MatchingIndexes(available_ports, name) ==
    {i \in DOMAIN available_ports : PortName(available_ports[i]) = name}

NoPortIndex == -1

PortIndex(available_ports, name) ==
    LET m == MatchingIndexes(available_ports, name)
    IN  IF m = {} THEN NoPortIndex
        ELSE (CHOOSE i \in m : \A j \in m : j <= i) - 1

\* rtmidi's open_port(port): opens the port of that number in the object's
\* own list, and raises InvalidPortError when the list has no such number.
OpenPort(ports, port_index) ==
    IF port_index + 1 \in DOMAIN ports
    THEN [raised |-> None, opened |-> Some(ports[port_index + 1])]
    ELSE [raised |-> Some("InvalidPortError"), opened |-> None]

\* The try block of create: what it raises to the caller, what it catches
\* and prints, and the ports midi_in and midi_out have open after it.
OpenPorts(ports_in, ports_out, name) ==
    LET available_ports == AvailablePorts(ports_in, ports_out)
        port_index == PortIndex(available_ports, name)
        open_in == OpenPort(ports_in, port_index)
        open_out == OpenPort(ports_out, port_index)
    IN  IF port_index = NoPortIndex
        THEN [raised |-> Some("IOError"), printed |-> <<>>,
              midi_in |-> None, midi_out |-> None]
        ELSE IF open_in.raised # None
        THEN [raised |-> None, printed |-> <<"InvalidPortError">>,
              midi_in |-> None, midi_out |-> None]
        ELSE IF open_out.raised # None
        THEN [raised |-> None, printed |-> <<"InvalidPortError">>,
              midi_in |-> open_in.opened, midi_out |-> None]
        ELSE [raised |-> None, printed |-> <<>>,
              midi_in |-> open_in.opened, midi_out |-> open_out.opened]

\* button_ids and knob_ids of the instance (create, lines 100-101).
button_ids == ElementIds(controller.data.buttons)
knob_ids == ElementIds(controller.data.knobs)

\* Where create stands once n initialisation commands have been sent.
StageAfter(n) ==
    IF n < Len(button_ids) THEN "init_buttons"
    ELSE IF n < Len(button_ids) + Len(knob_ids) THEN "init_knobs"
    ELSE "init_done"

\* ConnectedController.turn_off_button_led(id): the message it sends.
turn_off_button_led(id) ==
    <<BUTTON_VALUE_CHANGE_OFF_COMMAND, id, controller.data.button_value_off>>

\* ConnectedController.change_knob_value(id, new_value): the message it sends.
change_knob_value(id, new_value) == <<KNOB_VALUE_CHANGE_COMMAND, id, new_value>>

\* create, up to the construction of the instance: enumerate the ports,
\* select and open the controller's, build the instance with empty
\* engagement maps.  IOError leaves no instance.
Connect ==
    /\ pc \in {"idle", "failed"}
    /\ \E ports_in \in PortLists, ports_out \in PortLists :
          LET r == OpenPorts(ports_in, ports_out, controller.data.name)
          IN  /\ raised' = r.raised
              /\ printed' = r.printed
              /\ midi_in' = r.midi_in
              /\ midi_out' = r.midi_out
              /\ pc' = IF r.raised # None THEN "failed" ELSE StageAfter(0)
    /\ callback' = FALSE
    /\ button_engagement' = EmptyDict
    /\ knob_engagement' = EmptyDict
    /\ sent' = <<>>
    /\ UNCHANGED <<resolveVars, opVars, outVars, invoked, handled, last, knob_last>>

\* One turn of the loop of init_buttons.
InitButton ==
    /\ pc = "init_buttons"
    /\ LET id == button_ids[Len(sent) + 1]
       IN  /\ sent' = Append(sent, turn_off_button_led(id))
           /\ button_engagement' =
                 DictSet(button_engagement, id, controller.data.button_value_off)
    /\ pc' = StageAfter(Len(sent) + 1)
    /\ UNCHANGED <<resolveVars, opVars, outVars, midi_in, midi_out, callback, knob_engagement,
                   invoked, handled, last, knob_last, printed, raised>>

\* init_knobs with a fault: a turn sends the command and records nothing.
InitKnobUnrecorded ==
    /\ pc = "init_knobs"
    /\ LET id == knob_ids[Len(sent) - Len(button_ids) + 1]
       IN  sent' = Append(sent, change_knob_value(id, controller.data.knob_value_min))
    /\ pc' = StageAfter(Len(sent) + 1)
    /\ UNCHANGED <<resolveVars, opVars, outVars, midi_in, midi_out, callback, button_engagement,
                   knob_engagement, invoked, handled, last, knob_last, printed, raised>>

\* One turn of the loop of init_knobs.
InitKnob ==
    /\ pc = "init_knobs"
    /\ LET id == knob_ids[Len(sent) - Len(button_ids) + 1]
       IN  /\ sent' = Append(sent, change_knob_value(id, controller.data.knob_value_min))
           /\ knob_engagement' =
                 DictSet(knob_engagement, id, controller.data.knob_value_min)
    /\ pc' = StageAfter(Len(sent) + 1)
    /\ UNCHANGED <<resolveVars, opVars, outVars, midi_in, midi_out, callback, button_engagement,
                   invoked, handled, last, knob_last, printed, raised>>

\* create with a fault: the callback is registered once the instance is built,
\* before init_buttons and init_knobs run.
SetCallbackBeforeInit ==
    /\ pc \in {"init_buttons", "init_knobs", "init_done"}
    /\ \/ ~callback /\ callback' = TRUE /\ pc' = pc
       \/ callback /\ pc = "init_done" /\ callback' = TRUE /\ pc' = "connected"
    /\ UNCHANGED <<resolveVars, opVars, outVars, midi_in, midi_out, button_engagement, knob_engagement,
                   sent, invoked, handled, last, knob_last, printed, raised>>

\* instance.midi_in.set_callback(midi_callback, data=instance), and the
\* return of the instance.
SetCallback ==
    /\ pc = "init_done"
    /\ callback' = TRUE
    /\ pc' = "connected"
    /\ UNCHANGED <<resolveVars, opVars, outVars, midi_in, midi_out, button_engagement, knob_engagement,
                   sent, invoked, handled, last, knob_last, printed, raised>>

----------------------------------------------------------------------------
(* controller/connected_controller.py: the receive path.                   *)

\* The instance as its methods read it.
Self ==
    [controller |-> controller.data,
     button_ids |-> button_ids,
     knob_ids |-> knob_ids,
     button_engagement |-> button_engagement,
     knob_engagement |-> knob_engagement]

\* What a method call did: the exception it raised (if any), the actions it
\* invoked, and the engagement maps it left.
Return(self) ==
    [raised |-> None, invoked |-> <<>>,
     button_engagement |-> self.button_engagement,
     knob_engagement |-> self.knob_engagement]

Raise(self, exception) ==
    [raised |-> Some(exception), invoked |-> <<>>,
     button_engagement |-> self.button_engagement,
     knob_engagement |-> self.knob_engagement]

\* A call of a method declared with the parameters params (self aside): a
\* TypeError unless as many arguments are passed.
PyCall(self, params, args, result) ==
    IF Len(args) = Len(params) THEN result ELSE Raise(self, "TypeError")

\* x in list
PyIn(x, list) == \E i \in DOMAIN list : list[i] = x

\* handle_midi_message has no parameter or local named id: the name is the
\* builtin function id, an object equal to no integer.  It is written here
\* as a number no element id and no data byte can be.
BuiltinId == -1

\* ConnectedController.handle_button_engagement(data): the instance has the
\* field actions_handler and no attribute action_handler.
handle_button_engagement(self, data) == Raise(self, "AttributeError")

\* ConnectedController.handle_button_disengagement(data)
handle_button_disengagement(self, data) == Return(self)

\* prev_velocity of handle_knob_message, with the correction at the bounds.
prev_velocity(self, data) ==
    LET id == data[1]
        velocity == data[2]
        stored == self.knob_engagement[id]
        at_min == IF velocity = self.controller.knob_value_min
                  THEN self.controller.knob_value_min + 1
                  ELSE stored
    IN  IF velocity = self.controller.knob_value_max
        THEN self.controller.knob_value_max - 1
        ELSE at_min

\* ConnectedController.handle_knob_message(data): reads knob_engagement[id],
\* corrects prev_velocity, then fails on self.action_handler; it never
\* writes knob_engagement.
handle_knob_message(self, data) ==
    IF data[1] \notin DOMAIN self.knob_engagement
    THEN Raise(self, "KeyError")
    ELSE Raise(self, "AttributeError")

\* handle_midi_message with a fault: no membership test; every message is
\* taken as a knob message and its value recorded.
handle_midi_message_unchecked(self, command, channel, data) ==
    [raised |-> None, invoked |-> <<>>,
     button_engagement |-> self.button_engagement,
     knob_engagement |-> DictSet(self.knob_engagement, data[1], data[2])]

\* ConnectedController.handle_midi_message(command, channel, data)
handle_midi_message(self, command, channel, data) ==
    IF PyIn(BuiltinId, self.knob_ids)
    THEN PyCall(self, <<"data">>, <<command, channel, data>>,
                handle_knob_message(self, data))
    ELSE IF PyIn(BuiltinId, self.button_ids) /\ command = BUTTON_ENGAGED_COMMAND
    THEN PyCall(self, <<"data">>, <<command, channel, data>>,
                handle_button_engagement(self, data))
    ELSE IF PyIn(BuiltinId, self.button_ids) /\ command = BUTTON_DISENGAGED_COMMAND
    THEN PyCall(self, <<"data">>, <<command, channel, data>>,
                handle_button_disengagement(self, data))
    ELSE Raise(self, "ValueError")

\* status_byte & 0xF0 and status_byte & 0x0F
CommandOf(status_byte) == status_byte - (status_byte % 16)
ChannelOf(status_byte) == status_byte % 16

\* midi_callback(message, cls), message[0] being <<status_byte, data0, data1>>.
midi_callback(self, message) ==
    LET status_byte == message[1]
        command == CommandOf(status_byte)
        channel == ChannelOf(status_byte)
        data_bytes == SubSeq(message, 2, Len(message))
    IN  handle_midi_message(self, command, channel, data_bytes)

\* The raw messages a device sends: button engaged (channel 0), button
\* disengaged (channel 1), knob change, and a command of another kind; the
\* id of a button, of a knob, of both or of no element; a value at a bound
\* or inside.
StatusBytes == {144, 129, 176, 224}
DataIds == {0, 1, 2, 9}
DataValues == {0, 1, 127}
Messages == {<<st, d0, d1>> : st \in StatusBytes, d0 \in DataIds, d1 \in DataValues}

\* The adapter hands one inbound message to the registered callback.  What
\* the callback raises goes to the adapter's thread; the session goes on.
Deliver ==
    /\ callback
    /\ midi_in # None
    /\ handled < MaxMessages
    /\ \E message \in Messages :
          LET r == midi_callback(Self, message)
          IN  /\ button_engagement' = r.button_engagement
              /\ knob_engagement' = r.knob_engagement
              /\ invoked' = invoked \o r.invoked
              /\ raised' = r.raised
              /\ last' = [state |-> "ok", message |-> message,
                          raised |-> r.raised, invoked |-> r.invoked]
              /\ knob_last' = IF PyIn(message[2], knob_ids)
                              THEN DictSet(knob_last, message[2], message[3])
                              ELSE knob_last
    /\ handled' = handled + 1
    /\ UNCHANGED <<resolveVars, opVars, outVars, pc, midi_in, midi_out, callback, sent, printed>>

----------------------------------------------------------------------------
(* The session: a resolved controller, connected and receiving.            *)

\* The controllers of a session: buttons 0 and 1, and knobs 2 and 3 or knobs
\* 1 and 2 (the id 1 being then a button and a knob).  The controller whose
\* only knob has the id of button 1 has no valid bind set among those of a
\* session, and starts none.
SessionControllerInputs ==
    {d \in ControllerInputs :
        /\ d.name = "TestController"
        /\ d.buttons = <<Element(0, "Button1"), Element(1, "Button2")>>
        /\ d.knobs # <<>>}

\* The bind sets of a session: button 1 bound, button 0 not, and one knob bind.
SessionBindsInputs ==
    {b \in BindsInputs :
        /\ b.button_binds = <<[button_id |-> 1, action_id |-> "Action1"]>>
        /\ Len(b.knob_binds) = 1}

Init ==
    /\ actions = AllActions
    /\ controller \in {ControllerNew(d) : d \in SessionControllerInputs}
    /\ controller.state = "ok"
    /\ binds \in {BindsNew(b) : b \in SessionBindsInputs}
    /\ binds.state = "ok"
    /\ bound = BoundControllerCreate(binds.data, controller.data, actions)
    /\ bound.state = "ok"
    /\ query = NotLoaded
    /\ InitDup
    /\ InitSession

\* __del__: midi_in.close_port(), midi_in.delete(), midi_out.close_port(),
\* midi_out.delete(), on the instance create returned.  close_port on a port
\* that is not open does nothing; delete() frees the adapter object, and its
\* callback registration with it.  Nothing records that delete() was called:
\* a second __del__ calls close_port on the freed objects, which the adapter
\* leaves undefined, so the call either returns or ends the process.
Del ==
    /\ pc \in {"connected", "disconnected"}
    /\ \/ /\ ~deleted
          /\ midi_in' = None
          /\ midi_out' = None
          /\ callback' = FALSE
          /\ deleted' = TRUE
          /\ pc' = "disconnected"
          /\ raised' = None
       \/ /\ deleted
          /\ raised' = None
          /\ UNCHANGED <<pc, midi_in, midi_out, callback, deleted>>
       \/ /\ deleted
          /\ pc' = "crashed"
          /\ raised' = Some("SegmentationFault")
          /\ UNCHANGED <<midi_in, midi_out, callback, deleted>>
    /\ UNCHANGED <<resolveVars, outVars, button_engagement, knob_engagement,
                   sent, invoked, handled, last, knob_last, printed>>

Next == Connect \/ InitButton \/ InitKnob \/ SetCallback \/ Deliver \/ Del

Spec == Init /\ [][Next]_vars

----------------------------------------------------------------------------
(* controller/connected_controller.py: the outbound operations, called on  *)
(* a connected instance by a thread other than the adapter's.              *)

\* The turns of the loop of flash_knob and of flash_button.
FlashKnobTurns == 3
FlashButtonTurns == 3

\* The ids the outbound operations are called with: a button and a knob of
\* every session controller.
OutboundButtonIds == {id \in Range(button_ids) : id = 1}
OutboundKnobIds == {id \in Range(knob_ids) : id = 2}

\* ConnectedController.turn_on_button_led(id): the message it sends.
turn_on_button_led(id) ==
    <<BUTTON_VALUE_CHANGE_ON_COMMAND, id, controller.data.button_value_on>>

\* What an outbound operation leaves alone besides the engagement maps.
outboundFrame == <<resolveVars, opVars, pc, midi_in, midi_out, callback, invoked,
                   handled, last, knob_last, printed, raised>>

\* Whether an outbound operation may be called now.
MayCallOutbound ==
    /\ pc = "connected"
    /\ flash.state = "none"
    /\ outbound < MaxOutbound

\* change_knob_value with a fault: it records the value it sends as the
\* knob's engagement, as init_knobs does.
ChangeKnobValueRecorded ==
    /\ MayCallOutbound
    /\ \E id \in OutboundKnobIds :
          /\ sent' = Append(sent, change_knob_value(id, controller.data.knob_value_max))
          /\ knob_engagement' =
                DictSet(knob_engagement, id, controller.data.knob_value_max)
    /\ outbound' = outbound + 1
    /\ UNCHANGED <<outboundFrame, flash, button_engagement>>

\* A call of change_knob_value(id, new_value).
ChangeKnobValue ==
    /\ MayCallOutbound
    /\ \E id \in OutboundKnobIds :
          sent' = Append(sent, change_knob_value(id, controller.data.knob_value_max))
    /\ outbound' = outbound + 1
    /\ UNCHANGED <<outboundFrame, flash, button_engagement, knob_engagement>>

\* A call of turn_on_button_led(id).
TurnOnButtonLed ==
    /\ MayCallOutbound
    /\ \E id \in OutboundButtonIds : sent' = Append(sent, turn_on_button_led(id))
    /\ outbound' = outbound + 1
    /\ UNCHANGED <<outboundFrame, flash, button_engagement, knob_engagement>>

\* A call of turn_off_button_led(id).
TurnOffButtonLed ==
    /\ MayCallOutbound
    /\ \E id \in OutboundButtonIds : sent' = Append(sent, turn_off_button_led(id))
    /\ outbound' = outbound + 1
    /\ UNCHANGED <<outboundFrame, flash, button_engagement, knob_engagement>>

\* The flash call once it has sent one more message: asleep (time.sleep)
\* after it, the last message of the last turn included.
FlashAfter(kind, id, step, turns) ==
    [state |-> kind, id |-> id, step |-> step + 1]

\* The message flash_knob sends after step messages: minimum, then maximum.
FlashKnobMessage(id, step) ==
    IF step % 2 = 0 THEN change_knob_value(id, controller.data.knob_value_min)
    ELSE change_knob_value(id, controller.data.knob_value_max)

\* The message flash_button sends after step messages: on, then off.
FlashButtonMessage(id, step) ==
    IF step % 2 = 0 THEN turn_on_button_led(id) ELSE turn_off_button_led(id)

\* What a step of a flash leaves alone besides the engagement maps, pc and
\* raised.
flashFrame == <<resolveVars, opVars, midi_in, midi_out, callback, invoked,
                handled, last, knob_last, printed>>

\* flash_knob(id): the call and its first message, or the next message of
\* the call in progress, or its return once the sleep after the last
\* message is over; the sleeps after the messages let the receive callback
\* and __del__ run.  The loop tests neither the connection nor the adapter:
\* after __del__ the next message is still passed to midi_out.send_message,
\* a call on a freed adapter object, which the adapter leaves undefined, so
\* the call either goes on or ends the process.
FlashKnob ==
    /\ \/ /\ MayCallOutbound
          /\ \E id \in OutboundKnobIds :
                /\ sent' = Append(sent, FlashKnobMessage(id, 0))
                /\ flash' = FlashAfter("knob", id, 0, FlashKnobTurns)
          /\ outbound' = outbound + 1
          /\ UNCHANGED <<pc, raised>>
       \/ /\ pc \in {"connected", "disconnected"}
          /\ flash.state = "knob"
          /\ flash.step < 2 * FlashKnobTurns
          /\ \/ /\ sent' = Append(sent, FlashKnobMessage(flash.id, flash.step))
                /\ flash' = FlashAfter("knob", flash.id, flash.step, FlashKnobTurns)
                /\ UNCHANGED <<pc, raised>>
             \/ /\ deleted
                /\ pc' = "crashed"
                /\ raised' = Some("SegmentationFault")
                /\ UNCHANGED <<sent, flash>>
          /\ outbound' = outbound
       \/ /\ pc \in {"connected", "disconnected"}
          /\ flash.state = "knob"
          /\ flash.step = 2 * FlashKnobTurns
          /\ flash' = NotLoaded
          /\ UNCHANGED <<sent, outbound, pc, raised>>
    /\ UNCHANGED <<flashFrame, button_engagement, knob_engagement>>

\* flash_button(id), likewise.
FlashButton ==
    /\ \/ /\ MayCallOutbound
          /\ \E id \in OutboundButtonIds :
                /\ sent' = Append(sent, FlashButtonMessage(id, 0))
                /\ flash' = FlashAfter("button", id, 0, FlashButtonTurns)
          /\ outbound' = outbound + 1
          /\ UNCHANGED <<pc, raised>>
       \/ /\ pc \in {"connected", "disconnected"}
          /\ flash.state = "button"
          /\ flash.step < 2 * FlashButtonTurns
          /\ \/ /\ sent' = Append(sent, FlashButtonMessage(flash.id, flash.step))
                /\ flash' = FlashAfter("button", flash.id, flash.step, FlashButtonTurns)
                /\ UNCHANGED <<pc, raised>>
             \/ /\ deleted
                /\ pc' = "crashed"
                /\ raised' = Some("SegmentationFault")
                /\ UNCHANGED <<sent, flash>>
          /\ outbound' = outbound
       \/ /\ pc \in {"connected", "disconnected"}
          /\ flash.state = "button"
          /\ flash.step = 2 * FlashButtonTurns
          /\ flash' = NotLoaded
          /\ UNCHANGED <<sent, outbound, pc, raised>>
    /\ UNCHANGED <<flashFrame, button_engagement, knob_engagement>>

\* The initialisation commands create has sent when it returns.
InitSent ==
    [i \in 1..(Len(button_ids) + Len(knob_ids)) |->
        IF i <= Len(button_ids) THEN turn_off_button_led(button_ids[i])
        ELSE change_knob_value(knob_ids[i - Len(button_ids)],
                               controller.data.knob_value_min)]

\* The instance create has just returned, with both ports open: the session
\* controller with knobs 1 and 2, the id 1 being a button and a knob.
InitOutbound ==
    /\ actions = AllActions
    /\ controller \in {ControllerNew(d) : d \in SessionControllerInputs}
    /\ controller.state = "ok"
    /\ OutboundButtonIds # {} /\ OutboundKnobIds # {}
    /\ 1 \in Range(knob_ids)
    /\ binds \in {BindsNew(b) : b \in SessionBindsInputs}
    /\ binds.state = "ok"
    /\ binds.data.knob_binds[1].knob_id \in OutboundKnobIds
    /\ binds.data.knob_binds[1].action_id_increase # None
    /\ bound = BoundControllerCreate(binds.data, controller.data, actions)
    /\ bound.state = "ok"
    /\ query = NotLoaded
    /\ InitDup
    /\ pc = "connected"
    /\ midi_in = Some("TestController:0")
    /\ midi_out = Some("TestController:0")
    /\ callback = TRUE
    /\ button_engagement =
          [id \in Range(button_ids) |-> controller.data.button_value_off]
    /\ knob_engagement =
          [id \in Range(knob_ids) |-> controller.data.knob_value_min]
    /\ sent = InitSent
    /\ invoked = <<>>
    /\ handled = 0
    /\ last = NotLoaded
    /\ knob_last = EmptyDict
    /\ printed = <<>>
    /\ raised = None
    /\ deleted = FALSE
    /\ flash = NotLoaded
    /\ outbound = 0

NextOutbound ==
    \/ Deliver
    \/ ChangeKnobValue
    \/ TurnOnButtonLed
    \/ TurnOffButtonLed
    \/ FlashKnob
    \/ FlashButton
    \/ Del

SpecOutbound == InitOutbound /\ [][NextOutbound]_vars

----------------------------------------------------------------------------
(* Claims about the connected session (checked under Spec).                *)

ButtonIdSet == Range(button_ids)
KnobIdSet == Range(knob_ids)

\* The sequence of the actions an optional action stands for.
OptSeq(opt) == IF opt = None THEN <<>> ELSE <<CHOOSE a \in opt : TRUE>>

LastCommand == CommandOf(last.message[1])
LastId == last.message[2]
LastValue == last.message[3]

\* C4: with knob_value_min = 0 and knob_value_max = 127, a knob message with
\* value 0 resolves as an increase (the bound increase action is what the
\* message invokes) and one with value 127 as a decrease, whatever value is
\* stored for the knob.
C4_KnobBoundaryLaw ==
    ( /\ last.state = "ok"
      /\ LastCommand = KNOB_VALUE_CHANGE_COMMAND
      /\ LastId \in KnobIdSet
      /\ controller.data.knob_value_min = 0
      /\ controller.data.knob_value_max = 127 )
    => /\ LastValue = 0
            => last.invoked = OptSeq(get_knob_increase_action(bound, LastId))
       /\ LastValue = 127
            => last.invoked = OptSeq(get_knob_decrease_action(bound, LastId))

\* C5: on a connected controller knob_engagement[id] is the value of the
\* most recent knob message for id, and knob_value_min when there was none.
C5_EngagementIsLastValue ==
    pc = "connected" =>
        \A id \in KnobIdSet :
            /\ id \in DOMAIN knob_engagement
            /\ knob_engagement[id] = IF id \in DOMAIN knob_last
                                     THEN knob_last[id]
                                     ELSE controller.data.knob_value_min

\* C6: a message whose id is no knob and no button is reported as an error
\* and changes nothing else: no action is invoked, the engagement maps, the
\* ports and the callback are as before, and the instance the handlers read
\* is the one they read before it, so that every message is handled after it
\* exactly as it would have been handled before it.
C6_UnknownIdNotFatal ==
    [][ ( /\ handled' = handled + 1
          /\ last'.message[2] \notin (KnobIdSet \cup ButtonIdSet) )
        => /\ raised' # None
           /\ invoked' = invoked
           /\ button_engagement' = button_engagement
           /\ knob_engagement' = knob_engagement
           /\ callback' /\ callback
           /\ midi_in' = midi_in /\ midi_out' = midi_out
           /\ pc' = pc
           /\ Self' = Self
      ]_vars

\* A message of an unknown id was reported, and the session is connected
\* with its callback registered.
C6_Witness ==
    /\ last.state = "ok"
    /\ LastId \notin (KnobIdSet \cup ButtonIdSet)
    /\ last.raised # None
    /\ pc = "connected" /\ callback /\ midi_in # None

\* C7: a button-engaged message for a known button id invokes the action
\* bound to the button exactly once, and invokes nothing and raises nothing
\* when the button has no bind.
C7_ButtonPressInvokesBoundAction ==
    ( /\ last.state = "ok"
      /\ LastCommand = BUTTON_ENGAGED_COMMAND
      /\ LastId \in ButtonIdSet \ KnobIdSet )
    => /\ last.invoked = OptSeq(get_button_press_action(bound, LastId))
       /\ last.raised = None

\* The number of the initialisation commands.
InitCommands == Len(button_ids) + Len(knob_ids)

\* How many of the first n messages sent are the message m.
SentCount(m, n) == Cardinality({i \in 1..n : i \in DOMAIN sent /\ sent[i] = m})

\* C8: when create has returned, button_engagement has exactly the button
\* ids as keys, each at button_value_off, knob_engagement exactly the knob
\* ids, each at knob_value_min, and the initialisation sent exactly one off
\* command per button id and one set-to-minimum command per knob id.
C8_InitialEngagement ==
    (pc = "connected" /\ handled = 0)
    => /\ DOMAIN button_engagement = ButtonIdSet
       /\ \A id \in ButtonIdSet :
             button_engagement[id] = controller.data.button_value_off
       /\ DOMAIN knob_engagement = KnobIdSet
       /\ \A id \in KnobIdSet :
             knob_engagement[id] = controller.data.knob_value_min
       /\ Len(sent) >= InitCommands
       /\ \A id \in ButtonIdSet :
             SentCount(<<BUTTON_VALUE_CHANGE_OFF_COMMAND, id,
                         controller.data.button_value_off>>, InitCommands) = 1
       /\ \A id \in KnobIdSet :
             SentCount(<<KNOB_VALUE_CHANGE_COMMAND, id,
                         controller.data.knob_value_min>>, InitCommands) = 1

\* create has returned an instance with both ports open.
C8_Witness ==
    /\ pc = "connected" /\ handled = 0
    /\ midi_in # None /\ midi_out # None
    /\ ButtonIdSet # {} /\ KnobIdSet # {}
    /\ Len(sent) = InitCommands

\* C9: the receive callback is registered, and an inbound message handled,
\* only when every initialisation command has been sent and every
\* engagement entry recorded.
C9_CallbackAfterInit ==
    (callback \/ handled > 0)
    => /\ Len(sent) >= InitCommands
       /\ DOMAIN button_engagement = ButtonIdSet
       /\ DOMAIN knob_engagement = KnobIdSet
       /\ pc \in {"connected", "disconnected", "crashed"}

\* An inbound message was handled on an initialised controller.
C9_Witness ==
    /\ handled > 0 /\ callback
    /\ DOMAIN button_engagement = ButtonIdSet /\ ButtonIdSet # {}
    /\ DOMAIN knob_engagement = KnobIdSet /\ KnobIdSet # {}

\* C10: a connection attempt that fails (no port, no matching port, or a
\* port that does not open) raises to the caller and leaves no instance:
\* nothing is sent and no callback is registered.
C10_FailedConnectStaysDisconnected ==
    /\ (pc # "idle" /\ (midi_in = None \/ midi_out = None))
          => (pc = "failed" /\ raised # None)
    /\ pc = "failed"
          => (sent = <<>> /\ ~callback /\ midi_in = None /\ midi_out = None)

\* C11: teardown is idempotent and safe: once the adapter objects are
\* released, the session is disconnected with both ports closed and no
\* callback registered, and a further teardown raises nothing and leaves it
\* so.
C11_TeardownIdempotent ==
    deleted => /\ pc = "disconnected"
               /\ raised = None
               /\ midi_in = None
               /\ midi_out = None
               /\ ~callback

\* C12: once create has returned, a step of an outbound operation
\* (change_knob_value, turn_on_button_led, turn_off_button_led, flash_knob,
\* flash_button: the steps that send a message) leaves button_engagement and
\* knob_engagement as they were, whatever the receive callback has done or
\* does between the messages of a flash; only a step of the receive path
\* may change an engagement entry.
C12_OutboundLeavesEngagement ==
    [][(sent' # sent \/ handled' = handled)
          => /\ button_engagement' = button_engagement
             /\ knob_engagement' = knob_engagement]_vars

\* A flash is in progress on an id the receive callback has handled a
\* message for in the meantime.
C12_Witness ==
    /\ flash.state = "knob"
    /\ flash.step > 1
    /\ handled > 0
    /\ LastId = flash.id
    /\ Len(sent) > InitCommands

----------------------------------------------------------------------------
(* Claims about the validated models (checked under SpecResolve).          *)

\* The ids of a Binds input in scan order: button ids, then knob ids.
BindIdScan == BindIdsOf(binds.data)

\* C13: a constructed Binds has no id twice in its button ids followed by
\* its knob ids; construction fails when two button binds, two knob binds, or
\* a button bind and a knob bind share an id, and the error names the first
\* id met a second time in that order.
C13_BindsNoDuplicateIds ==
    binds.state # "none"
    => /\ binds.state = "ok" => Repeats(BindIdScan) = {}
       /\ Repeats(BindIdScan) # {}
             => /\ binds.state = "error"
                /\ \E k \in DOMAIN binds.errors :
                      /\ binds.errors[k].msg = "id was bound to multiple actions"
                      /\ binds.errors[k].id = BindIdScan[Least(Repeats(BindIdScan))]

\* A Binds input refused although no id occurs twice among its button binds
\* or among its knob binds: the button binds and the knob binds share two
\* ids, and the one met a second time first is not the first id of the scan.
C13_Witness ==
    /\ binds.state = "error"
    /\ Cardinality(BindButtonIds) = Len(binds.data.button_binds)
    /\ Cardinality(BindKnobIds) = Len(binds.data.knob_binds)
    /\ \E i, j \in Repeats(BindIdScan) : BindIdScan[i] # BindIdScan[j]
    /\ BindIdScan[Least(Repeats(BindIdScan))] # BindIdScan[Least(DOMAIN BindIdScan)]

\* The fields of a Controller input are of their declared types and ranges.
ControllerFieldsInRange ==
    /\ controller.data.name # ""
    /\ InRange(controller.data.button_value_off)
    /\ InRange(controller.data.button_value_on)
    /\ InRange(controller.data.knob_value_min)
    /\ InRange(controller.data.knob_value_max)
    /\ \A i \in DOMAIN controller.data.buttons :
          ControllerElementValid(controller.data.buttons[i])
    /\ \A i \in DOMAIN controller.data.knobs :
          ControllerElementValid(controller.data.knobs[i])

\* What the claim requires of a Controller.
ControllerConsistent ==
    /\ controller.data.button_value_off # controller.data.button_value_on
    /\ controller.data.knob_value_min < controller.data.knob_value_max
    /\ Repeats(ElementIds(controller.data.buttons)) = {}
    /\ Repeats(ElementIds(controller.data.knobs)) = {}
    /\ Repeats(ElementNames(controller.data.buttons)) = {}
    /\ Repeats(ElementNames(controller.data.knobs)) = {}

\* C14: a constructed Controller has button_value_off # button_value_on,
\* knob_value_min < knob_value_max, and ids and names pairwise distinct
\* within its buttons and within its knobs; an input breaking one of these is
\* refused, and an input with fields in range that keeps them all is
\* accepted, a button and a knob sharing an id or a name included.
C14_ControllerInvariants ==
    controller.state # "none"
    => /\ controller.state = "ok" => ControllerConsistent
       /\ ~ControllerConsistent => controller.state = "error"
       /\ (ControllerFieldsInRange /\ ControllerConsistent) => controller.state = "ok"

\* A constructed Controller with a button and a knob of one id and one name.
C14_Witness ==
    /\ controller.state = "ok"
    /\ \E i \in DOMAIN controller.data.buttons, j \in DOMAIN controller.data.knobs :
          /\ controller.data.buttons[i].id = controller.data.knobs[j].id
          /\ controller.data.buttons[i].name = controller.data.knobs[j].name

----------------------------------------------------------------------------
(* Claims about find_duplicate (checked under SpecFindDuplicate).          *)

\* C15: find_duplicate(values) returns none exactly when the elements of
\* values are pairwise distinct (the empty list included); otherwise it
\* returns the element at the smallest index whose value occurs at a smaller
\* index too; and values is after the call what it was before.
C15_FindDuplicate ==
    fd_call.state = "ok"
    => /\ fd_call.result = None <=> Repeats(fd_values) = {}
       /\ Repeats(fd_values) # {}
             => fd_call.result = Some(fd_values[Least(Repeats(fd_values))])
       /\ fd_values = fd_call.argument

\* A call on a list in which two different values occur twice, the value
\* occurring first being met a second time last.
C15_Witness ==
    /\ fd_call.state = "ok"
    /\ fd_call.result # None
    /\ \E i, j \in Repeats(fd_values) :
          /\ i < j
          /\ fd_values[i] # fd_values[j]
          /\ fd_values[j] = fd_values[Least(DOMAIN fd_values)]

----------------------------------------------------------------------------
(* Further claims about the connected session (checked under Spec).        *)

\* C16: when create goes on past the opening of the ports, the port
\* midi_in has open and the port midi_out has open both bear the
\* controller's name, whatever lists of input and output ports the adapter
\* reported.
C16_OpenedPortsMatchName ==
    pc \notin {"idle", "failed"}
    => \A port \in midi_in \cup midi_out :
          PortName(port) = controller.data.name

\* The receive path rejected the last inbound message as one for no
\* element: the ValueError of the last branch of handle_midi_message, the
\* only one the receive path raises itself.
LastRejected == last.raised = Some("ValueError")

\* C17: inbound messages are classified by element id, knobs first: a
\* message whose id is a knob id is handled as a knob message whatever its
\* command (also when the id is a button id as well and the command is
\* button-engaged), so it is never rejected as a message for no element; a
\* message whose id is a button id only is accepted when its command is
\* button-engaged or button-disengaged and rejected with an error otherwise.
C17_ClassifiedByIdKnobFirst ==
    last.state = "ok"
    => /\ LastId \in KnobIdSet => ~LastRejected
       /\ LastId \in ButtonIdSet \ KnobIdSet
             => (LastRejected <=>
                    LastCommand \notin {BUTTON_ENGAGED_COMMAND,
                                        BUTTON_DISENGAGED_COMMAND})

\* C18: a button-disengaged message for a known button id is accepted and
\* does nothing: it invokes no action, sends nothing to the device, raises
\* no error and leaves button_engagement and knob_engagement as they were.
C18_ButtonDisengagedIsNoOp ==
    [][ ( /\ handled' = handled + 1
          /\ CommandOf(last'.message[1]) = BUTTON_DISENGAGED_COMMAND
          /\ last'.message[2] \in ButtonIdSet \ KnobIdSet )
        => /\ last'.raised = None
           /\ last'.invoked = <<>>
           /\ sent' = sent
           /\ button_engagement' = button_engagement
           /\ knob_engagement' = knob_engagement ]_vars

====
